---- MODULE Spec2Model ----
(***************************************************************************)
(* A model of xmldom.py: the DOMWalker path interpreter and the            *)
(* DisabledValidation context manager.                                     *)
(*                                                                         *)
(* Python strings are sequences of one-character strings, so that          *)
(* str.split, str.join and int() are computed and not assumed.             *)
(***************************************************************************)
EXTENDS Integers, Sequences, FiniteSets, TLC

VARIABLES
    tree,       \* the binding tree under the walker's root: attribute "c" of each element of root.b
    _walked,    \* DOMWalker._walked: the list of segments, <<>> while the attribute is not set
    pc,         \* position of the caller in DOMWalker.__call__
    path,       \* argument of the running call
    nodes,      \* path.split(self._sep), the list the for loop iterates
    idx,        \* position of the for loop in nodes
    root,       \* the local variable root of __call__
    result,     \* the value returned by the call
    exc,        \* the DOMWalkTrip raised by the call
    ParsingRequiresValid,     \* pyxb's process-wide flag behind RequireValidWhenParsing
    GenerationRequiresValid,  \* pyxb's process-wide flag behind RequireValidWhenGenerating
    flags0,     \* history: the two flags before any scope was entered
    scopes,     \* the DisabledValidation objects and their attributes
    frames,     \* per thread, the stack of with-blocks entered and not yet left
    tpc         \* per thread, the next statement of __enter__ / __exit__

walkerVars == <<tree, _walked, pc, path, nodes, idx, root, result, exc>>
dvVars == <<ParsingRequiresValid, GenerationRequiresValid, flags0, scopes, frames, tpc>>
vars == <<walkerVars, dvVars>>

\* ---------------------------------------------------------------- bounds
MaxLen == 2      \* longest collection root.b
MaxSegs == 3     \* most separator-delimited pieces in a path
MaxDepth == 2    \* deepest nesting of with-blocks in one thread
NScopes == 2     \* DisabledValidation objects
NThreads == 2    \* threads using DisabledValidation

\* ------------------------------------------------ strings (str methods)
sep == "/"
ident_sep == "="

DigitChars == <<"0", "1", "2", "3", "4", "5", "6", "7", "8", "9">>

IsDigit(ch) == \E d \in 1..10 : DigitChars[d] = ch

DigitVal(ch) == (CHOOSE d \in 1..10 : DigitChars[d] = ch) - 1

RECURSIVE DigitsValue(_, _)
DigitsValue(s, acc) ==
    IF s = <<>> THEN acc ELSE DigitsValue(Tail(s), 10 * acc + DigitVal(Head(s)))

Unsigned(s) == IF s # <<>> /\ Head(s) \in {"-", "+"} THEN Tail(s) ELSE s

\* int(node) does not raise ValueError: an optional sign and decimal digits
\* (the blanks and underscores int() also accepts are not characters of Pieces)
IntParses(s) ==
    /\ Unsigned(s) # <<>>
    /\ \A k \in 1..Len(Unsigned(s)) : IsDigit(Unsigned(s)[k])

\* int(node)
IntValue(s) ==
    IF s # <<>> /\ Head(s) = "-" THEN 0 - DigitsValue(Unsigned(s), 0)
    ELSE DigitsValue(Unsigned(s), 0)

RECURSIVE NatStr(_)
NatStr(n) ==
    IF n < 10 THEN <<DigitChars[n + 1]>>
    ELSE NatStr(n \div 10) \o <<DigitChars[(n % 10) + 1]>>

\* '{}'.format(i) for an int i
IntStr(i) == IF i < 0 THEN <<"-">> \o NatStr(0 - i) ELSE NatStr(i)

\* s.split(d) for a one-character d
RECURSIVE Split(_, _)
Split(s, d) ==
    IF \E k \in 1..Len(s) : s[k] = d
    THEN LET k == CHOOSE k \in 1..Len(s) : s[k] = d /\ \A j \in 1..(k - 1) : s[j] # d
         IN  <<SubSeq(s, 1, k - 1)>> \o Split(SubSeq(s, k + 1, Len(s)), d)
    ELSE <<s>>

\* d.join(parts)
RECURSIVE Join(_, _)
Join(d, parts) ==
    IF parts = <<>> THEN <<>>
    ELSE IF Len(parts) = 1 THEN parts[1]
    ELSE parts[1] \o <<d>> \o Join(d, Tail(parts))

\* --------------------------------------------------- the binding tree
\* A root with one sub-node b, a plural binding; each element of b has, or
\* lacks, a text attribute c.
Absent == <<"absent">>
AttrVals == {Absent, <<"x">>, <<"y">>}

Node(kind, i) == [kind |-> kind, i |-> i]
None == Node("None", 0)
_root == Node("root", 0)

\* isinstance(n, _PluralBinding)
IsPlural(n) == n.kind = "plural"

\* list(n) for a plural binding n
Items(n) == [k \in 1..Len(tree) |-> Node("elem", k)]

\* getattr(n, name) does not raise AttributeError
HasAttr(n, name) ==
    \/ n.kind = "root" /\ name = <<"b">>
    \/ n.kind = "elem" /\ name = <<"c">> /\ tree[n.i] # Absent

\* getattr(n, name)
GetAttr(n, name) ==
    IF n.kind = "root" THEN Node("plural", 0) ELSE Node("text", n.i)

\* n == value, for a str value
NodeEq(n, value) == n.kind = "text" /\ tree[n.i] = value

\* ------------------------------------------------------ DOMWalker
NoExc == [kind |-> "none", at |-> <<>>, what |-> <<>>]

\* the walked property, read while _walked is set
walked == Join(sep, _walked)

\* the walked property raises DOMWalkTrip('Did not walk yet')
DidNotWalk == _walked = <<>>

\* a walker that sets the trail up once and never resets it
NewWalkedKeep == IF _walked = <<>> THEN << <<>> >> ELSE _walked

\* a walker that starts the trail without the root sentinel
NewWalkedNoSentinel == <<>>

\* self._walked = ['']
NewWalked == << <<>> >>

\* a loop that does not skip empty segments
NeverSkipped(node) == FALSE

\* `if not node: continue`
IsSkipped(node) == node = <<>>

\* the for/else scan over the elements of a plural binding
RECURSIVE ScanFrom(_, _, _, _)
ScanFrom(items, k, ident, value) ==
    IF k > Len(items) THEN [st |-> "notfound", k |-> 0]
    ELSE IF ~HasAttr(items[k], ident) THEN [st |-> "unidentifiable", k |-> k]
    ELSE IF NodeEq(GetAttr(items[k], ident), value) THEN [st |-> "found", k |-> k]
    ELSE ScanFrom(items, k + 1, ident, value)

\* a scan without the break: the last match wins
ScanElemsLast(items, ident, value) ==
    LET lacking == {k \in 1..Len(items) : ~HasAttr(items[k], ident)}
        hits == {k \in 1..Len(items) :
                    HasAttr(items[k], ident) /\ NodeEq(GetAttr(items[k], ident), value)}
    IN  IF lacking # {} THEN [st |-> "unidentifiable", k |-> CHOOSE k \in lacking : TRUE]
        ELSE IF hits = {} THEN [st |-> "notfound", k |-> 0]
        ELSE [st |-> "found", k |-> CHOOSE k \in hits : \A j \in hits : j <= k]

\* a scan that skips the elements lacking the attribute
RECURSIVE ScanSkipFrom(_, _, _, _)
ScanSkipFrom(items, k, ident, value) ==
    IF k > Len(items) THEN [st |-> "notfound", k |-> 0]
    ELSE IF HasAttr(items[k], ident) /\ NodeEq(GetAttr(items[k], ident), value)
         THEN [st |-> "found", k |-> k]
    ELSE ScanSkipFrom(items, k + 1, ident, value)

ScanElemsSkipMissing(items, ident, value) == ScanSkipFrom(items, 1, ident, value)

ScanElems(items, ident, value) == ScanFrom(items, 1, ident, value)

\* indexing that rejects every index outside 0..n-1
GetItemNoWrap(n, i) == IF 0 <= i /\ i < n THEN i + 1 ELSE 0

\* root[i] on a sequence of n items: 0 when IndexError is raised, else the
\* 1-based position of the item
GetItem(n, i) ==
    IF 0 <= i /\ i < n THEN i + 1
    ELSE IF 0 - n <= i /\ i < 0 THEN n + i + 1
    ELSE 0

Ok(n) == [ok |-> TRUE, root |-> n, kind |-> "none", what |-> <<>>]
Trip(kind, what) == [ok |-> FALSE, root |-> None, kind |-> kind, what |-> what]

\* one segment resolved against the current node rt
Resolve(rt, node) ==
    IF IsPlural(rt) THEN
        IF IntParses(node) THEN
            LET k == GetItem(Len(Items(rt)), IntValue(node))
            IN  IF k = 0 THEN Trip("IndexOutOfBounds", IntStr(IntValue(node)))
                ELSE Ok(Items(rt)[k])
        ELSE
            LET parts == Split(node, ident_sep)
            IN  IF Len(parts) # 2 THEN Trip("ExpectedIndexOrIdent", node)
                ELSE LET s == ScanElems(Items(rt), parts[1], parts[2])
                     IN  CASE s.st = "found" -> Ok(Items(rt)[s.k])
                           [] s.st = "unidentifiable" -> Trip("Unidentifiable", parts[1])
                           [] OTHER -> Trip("NotFound", parts[1])
    ELSE
        IF HasAttr(rt, node) THEN Ok(GetAttr(rt, node))
        ELSE Trip("NoSuchSubNode", node)

\* one iteration of the for loop on the locals st = [root, walked, exc]
LoopBody(st, node) ==
    IF IsSkipped(node) THEN st
    ELSE LET r == Resolve(st.root, node)
         IN  IF r.ok
             THEN [st EXCEPT !.root = r.root, !.walked = Append(st.walked, node)]
             ELSE [st EXCEPT !.exc = [kind |-> r.kind,
                                      at |-> Join(sep, st.walked),
                                      what |-> r.what]]

RECURSIVE RunLoop(_, _, _)
RunLoop(st, segs, k) ==
    IF k > Len(segs) \/ st.exc # NoExc THEN st
    ELSE RunLoop(LoopBody(st, segs[k]), segs, k + 1)

\* the whole of __call__(p): the locals when it returns or raises
Walk(p) == RunLoop([root |-> _root, walked |-> NewWalked, exc |-> NoExc], Split(p, sep), 1)

\* the paths callers pass: up to MaxSegs pieces joined by the separator
Pieces == {<<>>, <<"b">>, <<"c">>, <<"1">>, <<"-", "1">>, <<"c", "=", "x">>}
Paths == {Join(sep, s) : s \in UNION {[1..n -> Pieces] : n \in 0..MaxSegs}}
Trees == UNION {[1..n -> AttrVals] : n \in 0..MaxLen}

Call(p) ==
    /\ pc = "idle"
    /\ path' = p
    /\ _walked' = NewWalked
    /\ root' = _root
    /\ nodes' = Split(p, sep)
    /\ idx' = 1
    /\ pc' = "loop"
    /\ UNCHANGED <<tree, result, exc, dvVars>>

Iterate ==
    /\ pc = "loop"
    /\ idx <= Len(nodes)
    /\ LET st == LoopBody([root |-> root, walked |-> _walked, exc |-> NoExc], nodes[idx])
       IN  /\ root' = st.root
           /\ _walked' = st.walked
           /\ exc' = st.exc
           /\ IF st.exc = NoExc
              THEN idx' = idx + 1 /\ pc' = "loop"
              ELSE idx' = idx /\ pc' = "raised"
    /\ UNCHANGED <<tree, path, nodes, result, dvVars>>

Return ==
    /\ pc = "loop"
    /\ idx > Len(nodes)
    /\ result' = root
    /\ pc' = "returned"
    /\ UNCHANGED <<tree, _walked, path, nodes, idx, root, exc, dvVars>>

\* the caller takes the result or handles the exception; the locals are gone
Discard ==
    /\ pc \in {"returned", "raised"}
    /\ pc' = "idle"
    /\ path' = <<>>
    /\ nodes' = <<>>
    /\ idx' = 0
    /\ root' = None
    /\ result' = None
    /\ exc' = NoExc
    /\ UNCHANGED <<tree, _walked, dvVars>>

\* no DisabledValidation object exists; pyxb starts with both flags on
InitDVIdle ==
    /\ ParsingRequiresValid = TRUE
    /\ GenerationRequiresValid = TRUE
    /\ flags0 = <<TRUE, TRUE>>
    /\ scopes = <<>>
    /\ frames = <<>>
    /\ tpc = <<>>

Init ==
    /\ tree \in Trees
    /\ _walked = <<>>
    /\ pc = "idle"
    /\ path = <<>>
    /\ nodes = <<>>
    /\ idx = 0
    /\ root = None
    /\ result = None
    /\ exc = NoExc
    /\ InitDVIdle

Next ==
    \/ \E p \in Paths : Call(p)
    \/ Iterate
    \/ Return
    \/ Discard

Spec == Init /\ [][Next]_vars

\* ================================================ DisabledValidation
Scopes == 1..NScopes
Threads == 1..NThreads

Top(t) == frames[t][Len(frames[t])]

\* DisabledValidation(parsing, generating): __init__ sets the two attributes;
\* the two saved values are attributes only once __enter__ has run
NewScope(parsing, generating) ==
    [parsing |-> parsing,
     generating |-> generating,
     require_valid_when_parsing |-> <<>>,
     require_valid_when_generating |-> <<>>]

\* self.require_valid_when_parsing = RequireValidWhenParsing()
Enter67(t, o) ==
    /\ tpc[t] = "body"
    /\ Len(frames[t]) < MaxDepth
    /\ scopes' = [scopes EXCEPT ![o].require_valid_when_parsing = <<ParsingRequiresValid>>]
    /\ frames' = [frames EXCEPT ![t] =
            Append(@, [scope |-> o,
                       before |-> <<ParsingRequiresValid, GenerationRequiresValid>>])]
    /\ tpc' = [tpc EXCEPT ![t] = "enter68"]
    /\ UNCHANGED <<ParsingRequiresValid, GenerationRequiresValid, flags0, walkerVars>>

\* self.require_valid_when_generating = RequireValidWhenGenerating()
Enter68(t) ==
    /\ tpc[t] = "enter68"
    /\ scopes' = [scopes EXCEPT
            ![Top(t).scope].require_valid_when_generating = <<GenerationRequiresValid>>]
    /\ tpc' = [tpc EXCEPT ![t] = "enter69"]
    /\ UNCHANGED <<ParsingRequiresValid, GenerationRequiresValid, flags0, frames, walkerVars>>

\* RequireValidWhenParsing(not self.parsing)
Enter69(t) ==
    /\ tpc[t] = "enter69"
    /\ ParsingRequiresValid' = ~scopes[Top(t).scope].parsing
    /\ tpc' = [tpc EXCEPT ![t] = "enter70"]
    /\ UNCHANGED <<GenerationRequiresValid, flags0, scopes, frames, walkerVars>>

\* RequireValidWhenGenerating(not self.generating); the body of the with-block follows
Enter70(t) ==
    /\ tpc[t] = "enter70"
    /\ GenerationRequiresValid' = ~scopes[Top(t).scope].generating
    /\ tpc' = [tpc EXCEPT ![t] = "body"]
    /\ UNCHANGED <<ParsingRequiresValid, flags0, scopes, frames, walkerVars>>

\* the body of the innermost with-block ends, normally or with an error:
\* RequireValidWhenParsing(self.require_valid_when_parsing)
Exit75(t) ==
    /\ tpc[t] = "body"
    /\ frames[t] # <<>>
    /\ ParsingRequiresValid' = scopes[Top(t).scope].require_valid_when_parsing[1]
    /\ tpc' = [tpc EXCEPT ![t] = "exit76"]
    /\ UNCHANGED <<GenerationRequiresValid, flags0, scopes, frames, walkerVars>>

\* RequireValidWhenGenerating(self.require_valid_when_generating)
Exit76(t) ==
    /\ tpc[t] = "exit76"
    /\ GenerationRequiresValid' = scopes[Top(t).scope].require_valid_when_generating[1]
    /\ frames' = [frames EXCEPT ![t] = SubSeq(@, 1, Len(@) - 1)]
    /\ tpc' = [tpc EXCEPT ![t] = "body"]
    /\ UNCHANGED <<ParsingRequiresValid, flags0, scopes, walkerVars>>

\* the scope objects after construction, with any arguments, under any flags
InitDV ==
    /\ tree = <<>>
    /\ _walked = <<>>
    /\ pc = "idle"
    /\ path = <<>>
    /\ nodes = <<>>
    /\ idx = 0
    /\ root = None
    /\ result = None
    /\ exc = NoExc
    /\ ParsingRequiresValid \in BOOLEAN
    /\ GenerationRequiresValid \in BOOLEAN
    /\ flags0 = <<ParsingRequiresValid, GenerationRequiresValid>>
    /\ scopes \in [Scopes -> {NewScope(p, g) : p \in BOOLEAN, g \in BOOLEAN}]
    /\ frames = [t \in Threads |-> <<>>]
    /\ tpc = [t \in Threads |-> "body"]

\* one thread nesting with-blocks over the scope objects, an active one included
NextDV ==
    \/ \E o \in Scopes : Enter67(1, o)
    \/ Enter68(1)
    \/ Enter69(1)
    \/ Enter70(1)
    \/ Exit75(1)
    \/ Exit76(1)

SpecDV == InitDV /\ [][NextDV]_vars

\* every thread runs `with DisabledValidation(...)` on a scope object of its
\* own, one block at a time; the interpreter may switch threads between any
\* two statements
EnterOwn(t) == frames[t] = <<>> /\ Enter67(t, t)

NextThreads ==
    \E t \in Threads :
        \/ EnterOwn(t)
        \/ Enter68(t)
        \/ Enter69(t)
        \/ Enter70(t)
        \/ Exit75(t)
        \/ Exit76(t)

SpecThreads == InitDV /\ [][NextThreads]_vars

\* ------------------------------------------ DisabledValidation: properties
\* C8: when a scope exits, both flags have the values they had immediately
\* before that scope was entered, for every nesting of scopes in one thread,
\* a scope object entered again while active included.
C8_ExitRestoresPrior ==
    [][(tpc[1] = "exit76" /\ tpc'[1] = "body")
        => <<ParsingRequiresValid', GenerationRequiresValid'>> = Top(1).before]_vars

\* C9: once every thread has left its scope, both flags have the values they
\* had before any scope was entered, in every interleaving.
C9_ScopesDoNotClobber ==
    (\A t \in Threads : frames[t] = <<>> /\ tpc[t] = "body")
        => <<ParsingRequiresValid, GenerationRequiresValid>> = flags0

NonEmpty(segs) == SelectSeq(segs, LAMBDA s : s # <<>>)

\* the raw segments the running (or finished) call has consumed successfully
Consumed == NonEmpty(SubSeq(nodes, 1, idx - 1))

Finished == pc \in {"returned", "raised"}

\* ---- following a path by hand
\* the first element, in collection order, whose attribute attr equals value
\* (0 when there is none)
FirstEqual(items, attr, value) ==
    LET hits == {k \in 1..Len(items) :
                    HasAttr(items[k], attr) /\ NodeEq(GetAttr(items[k], attr), value)}
    IN  IF hits = {} THEN 0 ELSE CHOOSE k \in hits : \A j \in hits : k <= j

\* the positions of the identifier separator in a segment
EqAt(seg) == {k \in 1..Len(seg) : seg[k] = ident_sep}

\* one segment followed by hand from node n; None when it is not resolvable
RefStep(n, seg) ==
    IF n = None THEN None
    ELSE IF ~IsPlural(n) THEN (IF HasAttr(n, seg) THEN GetAttr(n, seg) ELSE None)
    ELSE IF IntParses(seg)
         THEN (IF IntValue(seg) \in 0..(Len(Items(n)) - 1)
               THEN Items(n)[IntValue(seg) + 1] ELSE None)
    ELSE IF Cardinality(EqAt(seg)) # 1 THEN None
    ELSE LET e == CHOOSE k \in EqAt(seg) : TRUE
             attr == SubSeq(seg, 1, e - 1)
             value == SubSeq(seg, e + 1, Len(seg))
             k == FirstEqual(Items(n), attr, value)
         IN  IF k # 0 /\ \A j \in 1..(k - 1) : HasAttr(Items(n)[j], attr)
             THEN Items(n)[k] ELSE None

RECURSIVE RefFollow(_, _)
RefFollow(n, segs) ==
    IF segs = <<>> THEN n ELSE RefFollow(RefStep(n, Head(segs)), Tail(segs))

\* C1: when every non-empty segment of the path is resolvable in turn, the
\* call returns, and returns the node reached by following the segments one
\* by one from the root.
C1_ReturnsFollowedNode ==
    (Finished /\ RefFollow(_root, NonEmpty(Split(path, sep))) # None)
        => (pc = "returned" /\ result = RefFollow(_root, NonEmpty(Split(path, sep))))

\* a call of "b/c=x" on a collection whose two elements both have c = x has
\* returned the first of them
C1_Witness ==
    /\ pc = "returned"
    /\ path = <<"b", "/", "c", "=", "x">>
    /\ tree = << <<"x">>, <<"x">> >>
    /\ result = Node("elem", 1)

\* C2: after a call (returned or raised), whatever calls came before it, the
\* trail is the separator-join of the empty root sentinel and the raw
\* segments this call consumed; the segment it failed on is not in it.
C2_TrailOfLastCall ==
    Finished =>
        /\ ~DidNotWalk
        /\ walked = Join(sep, << <<>> >> \o Consumed)
        /\ _walked = << <<>> >> \o Consumed
        /\ pc = "raised" => (exc.at = walked /\ Consumed = NonEmpty(SubSeq(Split(path, sep), 1, idx - 1)))
        /\ pc = "returned" => Consumed = NonEmpty(Split(path, sep))

\* "b/1/b" failed on its third segment: the trail is "/b/1"
C2_Witness ==
    /\ pc = "raised"
    /\ path = <<"b", "/", "1", "/", "b">>
    /\ walked = <<"/", "b", "/", "1">>
    /\ exc.kind = "NoSuchSubNode"

\* ---- one step of the loop on a collection
AtSegment == pc = "loop" /\ idx <= Len(nodes) /\ ~IsSkipped(nodes[idx])
IndexStep == AtSegment /\ IsPlural(root) /\ IntParses(nodes[idx])
IdentStep ==
    /\ AtSegment
    /\ IsPlural(root)
    /\ ~IntParses(nodes[idx])
    /\ Len(Split(nodes[idx], ident_sep)) = 2
Stepped(n) == pc' = "loop" /\ root' = n /\ _walked' = Append(_walked, nodes[idx])
Tripped(kind) == pc' = "raised" /\ exc'.kind = kind /\ exc'.at = walked /\ _walked' = _walked

\* C3 as claimed: an integer segment i on a collection of length n fails with
\* the index-out-of-range failure for every i outside 0..n-1 and yields
\* collection[i] only inside.
C3_OutsideZeroToNFails ==
    [][IndexStep =>
        LET i == IntValue(nodes[idx])
            n == Len(Items(root))
        IN  IF i \in 0..(n - 1) THEN Stepped(Items(root)[i + 1])
            ELSE Tripped("IndexOutOfBounds")]_vars

\* C3 amended: the step fails with the index-out-of-range failure exactly
\* when i >= n or i < -n; for 0 <= i < n it yields collection[i], and for
\* -n <= i < 0 it yields collection[n + i].
C3_PythonIndexing ==
    [][IndexStep =>
        LET i == IntValue(nodes[idx])
            n == Len(Items(root))
        IN  IF i \in 0..(n - 1) THEN Stepped(Items(root)[i + 1])
            ELSE IF i \in (0 - n)..(0 - 1) THEN Stepped(Items(root)[n + i + 1])
            ELSE Tripped("IndexOutOfBounds") /\ exc'.what = IntStr(i)]_vars

\* "b/-1" on a collection of two elements has returned the second element
C3_Witness ==
    /\ pc = "returned"
    /\ nodes = << <<"b">>, <<"-", "1">> >>
    /\ Len(tree) = 2
    /\ result = Node("elem", 2)

\* C4 as claimed: an identifier lookup fails with the unidentifiable-element
\* failure whenever any child of the collection lacks the attribute.
C4_AnyLackingChildFails ==
    [][(IdentStep /\ \E k \in 1..Len(Items(root)) :
                        ~HasAttr(Items(root)[k], Split(nodes[idx], ident_sep)[1]))
        => Tripped("Unidentifiable")]_vars

\* C4 amended: an identifier lookup fails with the unidentifiable-element
\* failure exactly when a child lacking the attribute has no child before it
\* whose attribute equals the value.
C4_LackingBeforeMatchFails ==
    [][IdentStep =>
        LET attr == Split(nodes[idx], ident_sep)[1]
            value == Split(nodes[idx], ident_sep)[2]
            items == Items(root)
            m == FirstEqual(items, attr, value)
        IN  IF \E k \in 1..Len(items) :
                   ~HasAttr(items[k], attr) /\ (m = 0 \/ k < m)
            THEN Tripped("Unidentifiable") /\ exc'.what = attr
            ELSE ~(pc' = "raised" /\ exc'.kind = "Unidentifiable")]_vars

\* "b/c=x" where the first element has c = x and the second lacks c has
\* returned the first element
C4_Witness ==
    /\ pc = "returned"
    /\ path = <<"b", "/", "c", "=", "x">>
    /\ tree = << <<"x">>, Absent >>
    /\ result = Node("elem", 1)

\* ---- index and identifier addressing
AttrNames == {<<"c">>}
TextValues == AttrVals \ {Absent}
HasValue(n, attr, v) == HasAttr(n, attr) /\ NodeEq(GetAttr(n, attr), v)
AtCollection == pc = "loop" /\ IsPlural(root)
SameNode(i, attr, v) ==
    LET a == Resolve(root, IntStr(i))
        b == Resolve(root, attr \o <<ident_sep>> \o v)
    IN  a.ok /\ b.ok /\ a.root = b.root

\* C5 as claimed: if element i has attr == v and no element before i has,
\* the segments i and attr=v both resolve, to the same node.
C5_IndexIdentAgree ==
    AtCollection =>
        \A i \in 0..(Len(Items(root)) - 1), attr \in AttrNames, v \in TextValues :
            (/\ HasValue(Items(root)[i + 1], attr, v)
             /\ \A j \in 1..i : ~HasValue(Items(root)[j], attr, v))
                => SameNode(i, attr, v)

\* C5 amended: if element i has attr == v, no element before i has, and
\* every element before i has the attribute attr, the segments i and attr=v
\* both resolve, to the same node.
C5_IndexIdentAgreeWhenIdentifiable ==
    AtCollection =>
        \A i \in 0..(Len(Items(root)) - 1), attr \in AttrNames, v \in TextValues :
            (/\ HasValue(Items(root)[i + 1], attr, v)
             /\ \A j \in 1..i : ~HasValue(Items(root)[j], attr, v)
             /\ \A j \in 1..i : HasAttr(Items(root)[j], attr))
                => /\ SameNode(i, attr, v)
                   /\ Resolve(root, IntStr(i)).root = Items(root)[i + 1]

\* the walk stands at a collection whose second element is the first with c = x
C5_Witness ==
    /\ AtCollection
    /\ tree = << <<"y">>, <<"x">> >>
    /\ Resolve(root, <<"c", "=", "x">>).root = Node("elem", 2)

\* ---- the trail
\* C6 as claimed: once a call has started, the trail has one entry more than
\* the segments resolved, and its string form starts with the separator.
C6_StartsWithSeparator ==
    pc # "idle" =>
        /\ Len(_walked) = Len(Consumed) + 1
        /\ walked # <<>>
        /\ Head(walked) = sep

\* C6 amended: once a call has started, the trail has one entry more than the
\* segments resolved; its string form is empty while no segment has been
\* resolved and starts with the separator afterwards.
C6_LengthAndLeadingSeparator ==
    /\ pc # "idle" =>
        /\ Len(_walked) = Len(Consumed) + 1
        /\ IF Len(Consumed) = 0 THEN walked = <<>> ELSE Head(walked) = sep
    /\ ~DidNotWalk =>
        \/ Len(_walked) = 1 /\ walked = <<>>
        \/ Len(_walked) > 1 /\ Head(walked) = sep

\* a call failed on its first segment: the trail renders as the empty string
C6_Witness ==
    /\ pc = "raised"
    /\ Consumed = <<>>
    /\ nodes[idx] # <<>>
    /\ walked = <<>>
    /\ exc.at = <<>>

\* ---- separators
InsertSep(p, k) == SubSeq(p, 1, k) \o <<sep>> \o SubSeq(p, k + 1, Len(p))

\* the places of p an extra separator may go: the start, the end, and before
\* each separator (which yields the same string as after it)
SepSlots(p) == {k \in 0..Len(p) : k = 0 \/ k = Len(p) \/ p[k + 1] = sep}

RECURSIVE InsertAll(_, _)
InsertAll(p, K) ==
    IF K = {} THEN p
    ELSE LET k == CHOOSE k \in K : \A j \in K : j <= k
         IN  InsertAll(InsertSep(p, k), K \ {k})

\* p with extra separators at any of those places
MoreSeps(p) == {InsertAll(p, K) : K \in SUBSET SepSlots(p)}

\* C7: a path with extra separators at the start, at the end or next to
\* separators has the outcome of the path without them: the same node
\* returned, or the same failure with the same trail.
C7_SeparatorsAreNoOps ==
    Finished =>
        \A q \in MoreSeps(path) :
            Walk(q) = [root |-> root, walked |-> _walked, exc |-> exc]

\* "/b/1", which starts with a separator, has returned the second element
C7_Witness ==
    /\ pc = "returned"
    /\ path = <<"/", "b", "/", "1">>
    /\ result = Node("elem", 2)
    /\ walked = <<"/", "b", "/", "1">>

====
